---- MODULE Spec2Model ----
(***************************************************************************)
(* Model of sf-deleted-fields (src/main.go): the three-stage concurrent    *)
(* resolution pipeline (processDeletedFields, processDeveloperNames,       *)
(* processApiNames), the shared accumulator deleteCounts guarded by mu,    *)
(* and the export step (exportResultsAsJSON, calculateCurCounts).          *)
(*                                                                         *)
(* A Go string is a sequence of tokens; "," and the line feed are tokens    *)
(* of their own, so strings.Split, HasPrefix, HasSuffix and Contains are   *)
(* computed on the token sequence as the library computes them on bytes.   *)
(*                                                                         *)
(* Specifications: Spec (one run of the program), SpecRuns (several runs   *)
(* in a row on the same export file), SpecExport (exportResultsAsJSON on   *)
(* any accumulator) and SpecLive (one run in which nothing fails, with     *)
(* fairness).                                                              *)
(***************************************************************************)
EXTENDS Integers, Sequences, FiniteSets, TLC

\* ---------------------------------------------------------------- bounds
\* Wall clock values are 0..MaxTime seconds; a calendar day is DayLen seconds.
MaxTime == 1
DayLen == 1
\* Number of process invocations (runs of main) in one behaviour.
MaxRuns == 2
\* Longest accumulator the export step is applied to on its own.
MaxRecords == 3

\* ---------------------------------------------------------------- strings
COMMA == ","
NL == "LF"

HasPrefix(s, p) == Len(s) >= Len(p) /\ SubSeq(s, 1, Len(p)) = p

HasSuffix(s, p) == Len(s) >= Len(p) /\ SubSeq(s, Len(s) - Len(p) + 1, Len(s)) = p

Contains(s, tok) == \E i \in 1..Len(s) : s[i] = tok

\* strings.Split(s, sep): the substrings between separators; Split("") = [""].
RECURSIVE Split(_, _)
Split(s, sep) ==
    IF Contains(s, sep)
    THEN LET i == CHOOSE k \in 1..Len(s) :
                     s[k] = sep /\ \A j \in 1..(k - 1) : s[j] # sep
         IN  <<SubSeq(s, 1, i - 1)>> \o Split(SubSeq(s, i + 1, Len(s)), sep)
    ELSE <<s>>

\* The body of extractCSVData's loop over the lines of the tool's output.
RECURSIVE ExtractLines(_, _)
ExtractLines(lines, processingCSV) ==
    IF lines = <<>> THEN <<>>
    ELSE LET line == Head(lines) IN
         IF processingCSV
         THEN (IF line # <<>> THEN line \o <<NL>> ELSE <<>>)
                  \o ExtractLines(Tail(lines), TRUE)
         ELSE IF Contains(line, COMMA)
              THEN line \o <<NL>> \o ExtractLines(Tail(lines), TRUE)
              ELSE ExtractLines(Tail(lines), FALSE)

extractCSVData(output) == ExtractLines(Split(output, NL), FALSE)

\* Joins lines with line feeds (how the tool prints a table).
RECURSIVE JoinLines(_)
JoinLines(lines) ==
    IF lines = <<>> THEN <<>>
    ELSE Head(lines) \o <<NL>> \o JoinLines(Tail(lines))

\* ---------------------------------------------------------------- the external query tool
\* Field values and lines of the tables the tool returns.
DevNameTitle == <<"DeveloperName">>
QualifiedTitle == <<"QualifiedApiName">>
DelSuffix == <<"_del">>
EnumPrefix == <<"01I">>

Row2(a, b) == a \o <<COMMA>> \o b
Row3(a, b, c) == a \o <<COMMA>> \o b \o <<COMMA>> \o c

FooDel == <<"Foo", "_del">>
TitleLikeDel == <<"DeveloperName", "X", "_del">>
Enum1 == <<"01I", "1">>
Enum2 == <<"01I", "2">>
Enum3 == <<"01I", "3">>
Enum4 == <<"01I", "4">>
QuxDel == <<"Qux", "_del">>
Account == <<"Account">>

DeletedHeader == Row2(DevNameTitle, <<"TableEnumOrId">>)
EnumHeader == Row2(<<"Id">>, DevNameTitle)
ApiHeader == Row3(<<"DurableId">>, DevNameTitle, QualifiedTitle)
Banner == <<"Warning", "update available">>

\* Outputs of soql/deleted_fields.soql that a run may receive.
DeletedFieldsOutputs ==
    { \* an enumeration-style row and a row that is not a deleted field
      JoinLines(<<Banner, DeletedHeader, Row2(FooDel, Enum1), Row2(<<"Bar">>, Account)>>),
      \* a direct row
      JoinLines(<<DeletedHeader, Row2(<<"Baz", "_del">>, Account)>>),
      \* a deleted field whose name begins with the column title
      JoinLines(<<DeletedHeader, Row2(TitleLikeDel, Account)>>),
      \* the same deleted field name on two tables, one of each kind
      JoinLines(<<DeletedHeader, Row2(FooDel, Enum2), Row2(FooDel, Account)>>),
      \* an enumeration-style table with no developer name
      JoinLines(<<DeletedHeader, Row2(FooDel, Enum3)>>),
      \* no deleted field at all
      JoinLines(<<DeletedHeader, Row2(<<"Bar">>, Account)>>),
      \* a line without a comma after the header
      JoinLines(<<DeletedHeader, <<"Bar">> >>),
      \* an enumeration-style table whose lookup output ends with a notice
      JoinLines(<<DeletedHeader, Row2(FooDel, Enum4)>>),
      \* a direct row whose API-name lookup output ends with a notice
      JoinLines(<<DeletedHeader, Row2(QuxDel, Account)>>),
      \* no table in the output
      JoinLines(<<Banner>>) }

\* The outputs drawn from when the program is run several times in a row.
RepeatedOutputs ==
    { \* no deleted field at all
      JoinLines(<<DeletedHeader, Row2(<<"Bar">>, Account)>>),
      \* a direct row
      JoinLines(<<DeletedHeader, Row2(<<"Baz", "_del">>, Account)>>),
      \* an enumeration-style row
      JoinLines(<<Banner, DeletedHeader, Row2(FooDel, Enum2)>>) }

\* Output of soql/enum_to_developer_name.soql for a table identifier.
EnumOutput(id) ==
    IF id = Enum1
    THEN JoinLines(<<EnumHeader, Row2(<<"a1">>, <<"X">>), Row2(<<"a2">>, <<"Y">>)>>)
    ELSE IF id = Enum2
    THEN JoinLines(<<EnumHeader, Row2(<<"a3">>, <<"W">>)>>)
    ELSE IF id = Enum4
    THEN JoinLines(<<EnumHeader, Row2(<<"a4">>, <<"V">>), Banner>>)
    ELSE JoinLines(<<EnumHeader>>)

\* Output of soql/developer_name_to_api_name.soql for a developer name.
ApiOutput(name) ==
    IF name = <<"X">>
    THEN JoinLines(<<ApiHeader, Row3(<<"d1">>, <<"Xapi">>, <<"Xq">>)>>)
    ELSE IF name = <<"Y">>
    THEN JoinLines(<<Banner, ApiHeader, Row3(<<"d2">>, <<"Yapi">>, <<"Yq">>)>>)
    ELSE IF name = <<"W">> \/ name = FooDel
    THEN JoinLines(<<ApiHeader, Row3(<<"d3">>, <<"Fooapi">>, <<"Fooq">>)>>)
    ELSE IF name = TitleLikeDel
    THEN JoinLines(<<ApiHeader, Row3(<<"d6">>, <<"Titleapi">>, <<"Titleq">>)>>)
    ELSE IF name = <<"Baz", "_del">>
    THEN JoinLines(<<ApiHeader, Row3(<<"d4">>, <<"Bazapi">>, <<"Bazq">>),
                                Row3(<<"d5">>, <<"Bazapi">>, <<"Bazq">>)>>)
    ELSE IF name = QuxDel
    THEN JoinLines(<<ApiHeader, Row3(<<"d7">>, <<"Quxapi">>, <<"Quxq">>), Banner>>)
    ELSE JoinLines(<<ApiHeader>>)

\* result.totalSize of SELECT Count() FROM <qualified name>.
CountOf(qname) ==
    IF qname = <<"Xq">> THEN 5
    ELSE IF qname = <<"Yq">> THEN 3
    ELSE IF qname = <<"Fooq">> THEN 2
    ELSE 1

\* ---------------------------------------------------------------- state
VARIABLES
    status,            \* "running", or how the process ended: "exit0", "exit1", "exit2"
    mainpc,            \* position of main
    runs,              \* invocations of the program so far
    now,               \* the wall clock at its last reading, in seconds
    deletedFieldsCSV,  \* main's deletedFieldsCSV
    mainIdx,           \* cursor of processDeletedFields' loop over the lines
    tasks,             \* the goroutines: task id -> locals and position
    wg,                \* the WaitGroup counter of main (id <<>>) and of each Stage A/B task
    deleteCounts,      \* the accumulator
    mu,                \* holder of the mutex mu, or NoTask
    file,              \* content of the export file
    exportData,        \* exportResultsAsJSON's exportData
    fileBefore,        \* history: content of the file when the run started
    queries,           \* history: the queries issued in this run, <<task, kind, parameter>>
    cause,             \* history: why the run ended
    prev,              \* history: the run before this one (its batch if it exported)
    offset,            \* position of the handle os.Create returned: "none", "start", "end"
    hashed             \* history: the bytes calculateMD5 fed to the hash, or NotHashed

vars == <<status, mainpc, runs, now, deletedFieldsCSV, mainIdx, tasks, wg,
          deleteCounts, mu, file, exportData, fileBefore, queries, cause, prev, offset, hashed>>

Root == <<>>
NoTask == <<0>>

Parent(t) == SubSeq(t, 1, Len(t) - 1)

DeleteCountRecord(dev, table, qname, api, count, ts) ==
    [DeveloperName |-> dev, TableEnumOrId |-> table, QualifiedApiName |-> qname,
     ApiName |-> api, Count |-> count, Timestamp |-> ts]

LastCount(date, count) == [Date |-> date, Count |-> count]

\* The zero value of ExportData: both slices nil.
ZeroExportData == [ResultsNil |-> TRUE, Results |-> <<>>, LastRunCount |-> <<>>]

\* Locals of a goroutine. data is the row it was started with (data / apiData).
Task(stage, pc, data, dev, table, api) ==
    [stage |-> stage, pc |-> pc, data |-> data, developerName |-> dev,
     tableEnumOrId |-> table, apiName |-> api, csv |-> <<>>, idx |-> 1,
     record |-> DeleteCountRecord(<<>>, <<>>, <<>>, <<>>, 0, 0)]

Running == status = "running"

\* ---------------------------------------------------------------- file content
AbsentFile == [kind |-> "absent"]
GarbageFile == [kind |-> "garbage"]
EmptyFile == [kind |-> "empty"]
PartialFile == [kind |-> "partial"]

\* json.Encoder.Encode(exportData): a nil slice is written as null.
Encode(d) ==
    [kind |-> "json",
     results |-> IF d.ResultsNil THEN "null" ELSE "array",
     resultItems |-> d.Results,
     lastRunCount |-> d.LastRunCount]

\* json.Decoder.Decode into the zero ExportData: null leaves the slice nil.
Decode(f) ==
    [ResultsNil |-> f.results = "null",
     Results |-> f.resultItems,
     LastRunCount |-> f.lastRunCount]

Decodable(f) == f.kind = "json"

\* A state file left by an earlier run that found one record.
OldRecord == DeleteCountRecord(FooDel, Account, <<"Fooq">>, <<"Fooapi">>, 2, 0)
OldFile == Encode([ResultsNil |-> FALSE, Results |-> <<OldRecord>>,
                   LastRunCount |-> <<LastCount(0, 2)>>])

InitialFiles == {AbsentFile, GarbageFile, OldFile}

\* ---------------------------------------------------------------- calculateCurCounts
\* time.Unix(ts, 0).Format("2006-01-02"): the calendar day of an instant.
DateOf(ts) == ts \div DayLen

\* CountLoop without the processed map: every record is added to its date.
RECURSIVE CountLoopAll(_, _, _, _)
CountLoopAll(records, i, counts, processed) ==
    IF i > Len(records) THEN counts
    ELSE LET record == records[i]
             date == DateOf(record.Timestamp)
             old == IF date \in DOMAIN counts THEN counts[date] ELSE 0
         IN  CountLoopAll(records, i + 1, (date :> (old + record.Count)) @@ counts,
                          processed)

\* The loop over records (main.go 362-373): counts maps a date to its total,
\* processed holds the <<date, QualifiedApiName>> pairs already counted.
RECURSIVE CountLoop(_, _, _, _)
CountLoop(records, i, counts, processed) ==
    IF i > Len(records) THEN counts
    ELSE LET record == records[i]
             date == DateOf(record.Timestamp)
             key == <<date, record.QualifiedApiName>>
             old == IF date \in DOMAIN counts THEN counts[date] ELSE 0
         IN  IF key \notin processed
             THEN CountLoop(records, i + 1, (date :> (old + record.Count)) @@ counts,
                            processed \cup {key})
             ELSE CountLoop(records, i + 1, counts, processed)

\* The orders in which a range loop may visit the keys of a map.
MapOrders(m) ==
    {o \in [1..Cardinality(DOMAIN m) -> DOMAIN m] :
        \A i, j \in DOMAIN o : i # j => o[i] # o[j]}

\* calculateCurCounts without the entry for an empty input.
calculateCurCountsNoZero(records, today) ==
    LET counts == CountLoop(records, 1, <<>>, {})
    IN  {[i \in DOMAIN o |-> LastCount(o[i], counts[o[i]])] : o \in MapOrders(counts)}

\* The slices calculateCurCounts may return (Go does not fix the iteration
\* order of the map counts).
calculateCurCounts(records, today) ==
    IF Len(records) = 0
    THEN {<<LastCount(today, 0)>>}
    ELSE LET counts == CountLoop(records, 1, <<>>, {})
         IN  {[i \in DOMAIN o |-> LastCount(o[i], counts[o[i]])] : o \in MapOrders(counts)}

\* ---------------------------------------------------------------- process exit
\* log.Fatal / a panic / return from main: the process ends, every goroutine
\* with it. mainpc stays where main was and deleteCounts is kept as the record
\* of what had been accumulated.
Exit(code, why) ==
    /\ status' = code
    /\ mainpc' = mainpc
    /\ cause' = why
    /\ tasks' = <<>>
    /\ wg' = (Root :> 0)
    /\ mu' = NoTask

NotHashed == [kind |-> "none"]

NoRun == [cause |-> "none", batch |-> <<>>, before |-> AbsentFile]

Init ==
    /\ status = "running"
    /\ mainpc = "query"
    /\ runs = 1
    /\ now = 0
    /\ deletedFieldsCSV = <<>>
    /\ mainIdx = 1
    /\ tasks = <<>>
    /\ wg = (Root :> 0)
    /\ deleteCounts = <<>>
    /\ mu = NoTask
    /\ file \in InitialFiles
    /\ exportData = ZeroExportData
    /\ fileBefore = file
    /\ queries = {}
    /\ cause = "none"
    /\ prev = NoRun
    /\ offset = "none"
    /\ hashed = NotHashed

\* The program is started again; the file and the clock are all that is kept.
Restart ==
    /\ ~Running
    /\ runs < MaxRuns
    /\ runs' = runs + 1
    /\ status' = "running"
    /\ mainpc' = "query"
    /\ deletedFieldsCSV' = <<>>
    /\ mainIdx' = 1
    /\ tasks' = <<>>
    /\ wg' = (Root :> 0)
    /\ deleteCounts' = <<>>
    /\ mu' = NoTask
    /\ exportData' = ZeroExportData
    /\ fileBefore' = file
    /\ queries' = {}
    /\ cause' = "none"
    /\ prev' = [cause |-> cause,
                batch |-> IF cause = "exported" THEN deleteCounts ELSE <<>>,
                before |-> fileBefore]
    /\ offset' = "none"
    /\ hashed' = NotHashed
    /\ UNCHANGED <<now, file>>

\* time.Now(): the clock is read; it has not gone back since the last reading.
ClockReadings == now..MaxTime

\* ---------------------------------------------------------------- main
\* main.go 61-64: the first query succeeds with one of the given outputs.
MainQuery(outputs) ==
    /\ Running /\ mainpc = "query"
    /\ \E output \in outputs : deletedFieldsCSV' = extractCSVData(output)
    /\ mainpc' = "loop"
    /\ queries' = queries \cup {<<Root, "deleted_fields", <<>> >>}
    /\ UNCHANGED <<status, runs, now, mainIdx, tasks, wg, deleteCounts, mu, file,
                   exportData, fileBefore, cause, prev, offset, hashed>>

MainQueryOk == MainQuery(DeletedFieldsOutputs)

\* The same step in a sequence of runs, over the tables RepeatedOutputs.
RepeatedQueryOk == MainQuery(RepeatedOutputs)

\* main.go 62-64: the first query fails, log.Fatal.
MainQueryFail ==
    /\ Running /\ mainpc = "query"
    /\ Exit("exit1", "query")
    /\ queries' = queries \cup {<<Root, "deleted_fields", <<>> >>}
    /\ UNCHANGED <<runs, now, deletedFieldsCSV, mainIdx, deleteCounts,
                   file, exportData, fileBefore, prev, offset, hashed>>

\* ---------------------------------------------------------------- Stage A dispatch
\* main.go 153: the lines processDeletedFields skips before splitting.
SkipLine(line) == line = <<>> \/ HasPrefix(line, DevNameTitle)

\* IsDeleted with the suffix test left out.
IsDeletedAlways(data) == TRUE

\* main.go 159: the deletion-marker test on the first field.
IsDeleted(data) == HasSuffix(data[1], DelSuffix)

\* One iteration of the loop of processDeletedFields (main.go 152-183).
ProcessDeletedFieldsStep ==
    /\ Running /\ mainpc = "loop"
    /\ LET lines == Split(deletedFieldsCSV, NL) IN
       /\ mainIdx <= Len(lines)
       /\ LET line == lines[mainIdx]
              data == Split(line, COMMA)
              id == <<mainIdx>>
          IN  IF SkipLine(line)
              THEN /\ mainIdx' = mainIdx + 1
                   /\ UNCHANGED <<status, mainpc, cause, tasks, wg, mu>>
              ELSE IF ~IsDeleted(data)
              THEN IF Len(data) < 2
                   THEN \* data[1] in the log call of line 160: index out of range
                        /\ Exit("exit2", "panic")
                        /\ UNCHANGED mainIdx
                   ELSE /\ mainIdx' = mainIdx + 1
                        /\ UNCHANGED <<status, mainpc, cause, tasks, wg, mu>>
              ELSE /\ mainIdx' = mainIdx + 1
                   /\ wg' = [wg EXCEPT ![Root] = @ + 1] @@ (id :> 0)
                   /\ tasks' = tasks @@ (id :> Task("A", "start", data, <<>>, <<>>, <<>>))
                   /\ UNCHANGED <<status, mainpc, cause, mu>>
    /\ UNCHANGED <<runs, now, deletedFieldsCSV, deleteCounts, file, exportData,
                   fileBefore, queries, prev, offset, hashed>>

IsStage(t, stage) == t \in DOMAIN tasks /\ tasks[t].stage = stage

\* A Stage A goroutine whose table identifier is enumeration-style.
AtEnumQuery(t) ==
    /\ IsStage(t, "A") /\ tasks[t].pc = "start"
    /\ Len(tasks[t].data) >= 2
    /\ HasPrefix(tasks[t].data[2], EnumPrefix)

\* main.go 168-175: the enumeration lookup succeeds.
StageAEnumOk(t) ==
    /\ Running /\ AtEnumQuery(t)
    /\ LET data == tasks[t].data IN
       /\ tasks' = [tasks EXCEPT ![t].pc = "loop",
                                 ![t].csv = extractCSVData(EnumOutput(data[2])),
                                 ![t].developerName = data[1],
                                 ![t].tableEnumOrId = data[2]]
       /\ queries' = queries \cup {<<t, "enum_to_developer_name", data[2]>>}
    /\ UNCHANGED <<status, mainpc, runs, now, deletedFieldsCSV, mainIdx, wg,
                   deleteCounts, mu, file, exportData, fileBefore, cause, prev, offset, hashed>>

\* DirectCSV whose first line does not carry the column title.
DirectCSVNoTitle(name) ==
    name \o <<COMMA>> \o name \o <<NL>> \o name \o <<COMMA>> \o name

\* main.go 178: the table synthesized for a direct row.
DirectCSV(name) ==
    name \o <<COMMA>> \o DevNameTitle \o <<NL>> \o name \o <<COMMA>> \o name

\* main.go 168, 176-181: the direct policy, or data[1] out of range.
StageADirect(t) ==
    /\ Running /\ IsStage(t, "A") /\ tasks[t].pc = "start"
    /\ LET data == tasks[t].data IN
       IF Len(data) < 2
       THEN Exit("exit2", "panic")
       ELSE /\ ~HasPrefix(data[2], EnumPrefix)
            /\ tasks' = [tasks EXCEPT
                   ![t].pc = "loop",
                   ![t].csv = DirectCSV(data[1]),
                   ![t].developerName = data[1],
                   ![t].tableEnumOrId = data[2]]
            /\ UNCHANGED <<status, mainpc, cause, wg, mu>>
    /\ UNCHANGED <<runs, now, deletedFieldsCSV, mainIdx, deleteCounts, file,
                   exportData, fileBefore, queries, prev, offset, hashed>>

\* ---------------------------------------------------------------- Stage B dispatch
\* One iteration of the loop of processDeveloperNames (main.go 191-215), run by
\* the Stage A goroutine t.
ProcessDeveloperNamesStep(t) ==
    /\ Running /\ IsStage(t, "A") /\ tasks[t].pc = "loop"
    /\ LET lines == Split(tasks[t].csv, NL)
           i == tasks[t].idx
       IN
       /\ i <= Len(lines)
       /\ LET devLine == lines[i]
              apiData == Split(devLine, COMMA)
              id == t \o <<i>>
          IN  IF devLine = <<>>
              THEN /\ tasks' = [tasks EXCEPT ![t].idx = i + 1]
                   /\ UNCHANGED <<status, mainpc, cause, wg, mu>>
              ELSE IF Len(apiData) < 2
              THEN \* apiData[1] at line 198: index out of range
                   Exit("exit2", "panic")
              ELSE IF apiData[2] = DevNameTitle
              THEN /\ tasks' = [tasks EXCEPT ![t].idx = i + 1]
                   /\ UNCHANGED <<status, mainpc, cause, wg, mu>>
              ELSE /\ wg' = [wg EXCEPT ![t] = @ + 1] @@ (id :> 0)
                   /\ tasks' = [tasks EXCEPT ![t].idx = i + 1] @@
                          (id :> Task("B", "query", apiData, tasks[t].developerName,
                                      tasks[t].tableEnumOrId, apiData[2]))
                   /\ UNCHANGED <<status, mainpc, cause, mu>>
    /\ UNCHANGED <<runs, now, deletedFieldsCSV, mainIdx, deleteCounts, file,
                   exportData, fileBefore, queries, prev, offset, hashed>>

\* main.go 208-213: the API-name lookup succeeds.
StageBQueryOk(t) ==
    /\ Running /\ IsStage(t, "B") /\ tasks[t].pc = "query"
    /\ tasks' = [tasks EXCEPT ![t].pc = "loop",
                              ![t].csv = extractCSVData(ApiOutput(tasks[t].data[2]))]
    /\ queries' = queries \cup {<<t, "developer_name_to_api_name", tasks[t].data[2]>>}
    /\ UNCHANGED <<status, mainpc, runs, now, deletedFieldsCSV, mainIdx, wg,
                   deleteCounts, mu, file, exportData, fileBefore, cause, prev, offset, hashed>>

\* ---------------------------------------------------------------- Stage C dispatch
\* One iteration of the loop of processApiNames (main.go 223-262), run by the
\* Stage B goroutine t.
ProcessApiNamesStep(t) ==
    /\ Running /\ IsStage(t, "B") /\ tasks[t].pc = "loop"
    /\ LET lines == Split(tasks[t].csv, NL)
           i == tasks[t].idx
       IN
       /\ i <= Len(lines)
       /\ LET apiLine == lines[i]
              apiData == Split(apiLine, COMMA)
              id == t \o <<i>>
          IN  IF apiLine = <<>>
              THEN /\ tasks' = [tasks EXCEPT ![t].idx = i + 1]
                   /\ UNCHANGED <<status, mainpc, cause, wg, mu>>
              ELSE IF Len(apiData) < 3
              THEN \* apiData[2] at line 229: index out of range
                   Exit("exit2", "panic")
              ELSE IF apiData[3] = QualifiedTitle
              THEN /\ tasks' = [tasks EXCEPT ![t].idx = i + 1]
                   /\ UNCHANGED <<status, mainpc, cause, wg, mu>>
              ELSE /\ wg' = [wg EXCEPT ![t] = @ + 1]
                   /\ tasks' = [tasks EXCEPT ![t].idx = i + 1] @@
                          (id :> Task("C", "query", apiData, tasks[t].developerName,
                                      tasks[t].tableEnumOrId, tasks[t].apiName))
                   /\ UNCHANGED <<status, mainpc, cause, mu>>
    /\ UNCHANGED <<runs, now, deletedFieldsCSV, mainIdx, deleteCounts, file,
                   exportData, fileBefore, queries, prev, offset, hashed>>

\* StageCQueryOk that builds the record from the row of any Stage C goroutine
\* of the run (a row shared between the goroutines instead of passed to each).
StageCQueryOkShared(t) ==
    /\ Running /\ IsStage(t, "C") /\ tasks[t].pc = "query"
    /\ now' \in ClockReadings
    /\ \E u \in {x \in DOMAIN tasks : tasks[x].stage = "C"} :
         LET apiData == tasks[u].data IN
         /\ tasks' = [tasks EXCEPT
                ![t].pc = "lock",
                ![t].record = DeleteCountRecord(tasks[t].developerName,
                                  tasks[t].tableEnumOrId, apiData[3], apiData[2],
                                  CountOf(apiData[3]), now')]
         /\ queries' = queries \cup {<<t, "count", apiData[3]>>}
    /\ UNCHANGED <<status, mainpc, runs, deletedFieldsCSV, mainIdx, wg,
                   deleteCounts, mu, file, exportData, fileBefore, cause, prev, offset, hashed>>

\* main.go 238-256: the count query succeeds and the record is built.
StageCQueryOk(t) ==
    /\ Running /\ IsStage(t, "C") /\ tasks[t].pc = "query"
    /\ now' \in ClockReadings
    /\ LET apiData == tasks[t].data IN
       /\ tasks' = [tasks EXCEPT
              ![t].pc = "lock",
              ![t].record = DeleteCountRecord(tasks[t].developerName,
                                tasks[t].tableEnumOrId, apiData[3], apiData[2],
                                CountOf(apiData[3]), now')]
       /\ queries' = queries \cup {<<t, "count", apiData[3]>>}
    /\ UNCHANGED <<status, mainpc, runs, deletedFieldsCSV, mainIdx, wg,
                   deleteCounts, mu, file, exportData, fileBefore, cause, prev, offset, hashed>>

\* ---------------------------------------------------------------- query failure
\* A goroutine that is about to issue a query: the query kind and parameter.
AtQuery(t) ==
    \/ AtEnumQuery(t)
    \/ IsStage(t, "B") /\ tasks[t].pc = "query"
    \/ IsStage(t, "C") /\ tasks[t].pc = "query"

QueryOf(t) ==
    IF tasks[t].stage = "A" THEN <<t, "enum_to_developer_name", tasks[t].data[2]>>
    ELSE IF tasks[t].stage = "B" THEN <<t, "developer_name_to_api_name", tasks[t].data[2]>>
    ELSE <<t, "count", tasks[t].data[3]>>

\* QueryFail with the error only logged: the goroutine returns, the run goes on.
QueryFailLogged(t) ==
    /\ Running /\ AtQuery(t)
    /\ cause' = "query"
    /\ queries' = queries \cup {QueryOf(t)}
    /\ tasks' = [tasks EXCEPT ![t].pc = "done"]
    /\ wg' = [wg EXCEPT ![Parent(t)] = @ - 1]
    /\ UNCHANGED <<status, mainpc, runs, now, deletedFieldsCSV, mainIdx, deleteCounts,
                   mu, file, exportData, fileBefore, prev, offset, hashed>>

\* main.go 171-173, 209-211, 242-244: the query of goroutine t fails, log.Fatal.
QueryFail(t) ==
    /\ Running /\ AtQuery(t)
    /\ Exit("exit1", "query")
    /\ queries' = queries \cup {QueryOf(t)}
    /\ UNCHANGED <<runs, now, deletedFieldsCSV, mainIdx, deleteCounts,
                   file, exportData, fileBefore, prev, offset, hashed>>

\* ---------------------------------------------------------------- the accumulator
\* Lock that does not wait for the holder of mu.
LockNoWait(t) ==
    /\ Running /\ IsStage(t, "C") /\ tasks[t].pc = "lock"
    /\ mu' = t
    /\ tasks' = [tasks EXCEPT ![t].pc = "append"]
    /\ UNCHANGED <<status, mainpc, runs, now, deletedFieldsCSV, mainIdx, wg,
                   deleteCounts, file, exportData, fileBefore, queries, cause,
                   prev, offset, hashed>>

\* main.go 258: mu.Lock().
Lock(t) ==
    /\ Running /\ IsStage(t, "C") /\ tasks[t].pc = "lock"
    /\ mu = NoTask
    /\ mu' = t
    /\ tasks' = [tasks EXCEPT ![t].pc = "append"]
    /\ UNCHANGED <<status, mainpc, runs, now, deletedFieldsCSV, mainIdx, wg,
                   deleteCounts, file, exportData, fileBefore, queries, cause,
                   prev, offset, hashed>>

\* main.go 259: deleteCounts = append(deleteCounts, record).
AppendRecord(t) ==
    /\ Running /\ IsStage(t, "C") /\ tasks[t].pc = "append"
    /\ deleteCounts' = Append(deleteCounts, tasks[t].record)
    /\ tasks' = [tasks EXCEPT ![t].pc = "unlock"]
    /\ UNCHANGED <<status, mainpc, runs, now, deletedFieldsCSV, mainIdx, wg, mu,
                   file, exportData, fileBefore, queries, cause, prev, offset, hashed>>

\* main.go 260: mu.Unlock().
Unlock(t) ==
    /\ Running /\ IsStage(t, "C") /\ tasks[t].pc = "unlock"
    /\ mu' = NoTask
    /\ tasks' = [tasks EXCEPT ![t].pc = "return"]
    /\ UNCHANGED <<status, mainpc, runs, now, deletedFieldsCSV, mainIdx, wg,
                   deleteCounts, file, exportData, fileBefore, queries, cause,
                   prev, offset, hashed>>

\* main.go 235: the deferred wg.Done() of a Stage C goroutine.
StageCDone(t) ==
    /\ Running /\ IsStage(t, "C") /\ tasks[t].pc = "return"
    /\ wg' = [wg EXCEPT ![Parent(t)] = @ - 1]
    /\ tasks' = [tasks EXCEPT ![t].pc = "done"]
    /\ UNCHANGED <<status, mainpc, runs, now, deletedFieldsCSV, mainIdx, deleteCounts,
                   mu, file, exportData, fileBefore, queries, cause, prev, offset, hashed>>

\* ---------------------------------------------------------------- joins
\* Joined without the wait for the WaitGroup.
JoinedNoWait(t) ==
    /\ tasks[t].pc = "loop"
    /\ tasks[t].idx > Len(Split(tasks[t].csv, NL))

\* wg.Wait() at the end of processDeveloperNames / processApiNames: the loop of
\* goroutine t is over and its WaitGroup counter is zero.
Joined(t) ==
    /\ tasks[t].pc = "loop"
    /\ tasks[t].idx > Len(Split(tasks[t].csv, NL))
    /\ wg[t] = 0

\* main.go 217, 264 and 166, 205: wg.Wait() returns in goroutine t, the
\* function returns and the deferred wg.Done() of the goroutine runs.
Join(t) ==
    /\ Running /\ t \in DOMAIN tasks /\ tasks[t].stage \in {"A", "B"}
    /\ Joined(t)
    /\ wg' = [wg EXCEPT ![Parent(t)] = @ - 1]
    /\ tasks' = [tasks EXCEPT ![t].pc = "done"]
    /\ UNCHANGED <<status, mainpc, runs, now, deletedFieldsCSV, mainIdx, deleteCounts,
                   mu, file, exportData, fileBefore, queries, cause, prev, offset, hashed>>

\* RootJoined without the wait for the WaitGroup.
RootLoopDone ==
    /\ mainpc = "loop"
    /\ mainIdx > Len(Split(deletedFieldsCSV, NL))

\* main.go 185: wg.Wait() of processDeletedFields may return.
RootJoined ==
    /\ mainpc = "loop"
    /\ mainIdx > Len(Split(deletedFieldsCSV, NL))
    /\ wg[Root] = 0

\* main.go 185, 69-74: processDeletedFields returns; main exports unless the
\* export flag is empty.
RootJoin ==
    /\ Running /\ RootJoined
    /\ \E export \in BOOLEAN :
          IF export
          THEN mainpc' = "stat" /\ UNCHANGED <<status, cause, tasks, wg, mu>>
          ELSE Exit("exit0", "ok")
    /\ UNCHANGED <<runs, now, deletedFieldsCSV, mainIdx, deleteCounts,
                   file, exportData, fileBefore, queries, prev, offset, hashed>>

\* ---------------------------------------------------------------- exportResultsAsJSON
\* ExportLoad that goes on with empty data when the file cannot be decoded.
ExportLoadLenient ==
    /\ Running /\ mainpc = "stat"
    /\ exportData' = IF Decodable(file) THEN Decode(file) ELSE exportData
    /\ mainpc' = "merge"
    /\ UNCHANGED <<status, cause, tasks, wg, mu, runs, now, deletedFieldsCSV, mainIdx,
                   deleteCounts, file, fileBefore, queries, prev, offset, hashed>>

\* main.go 308-320: load the state file if there is one.
ExportLoad ==
    /\ Running /\ mainpc = "stat"
    /\ IF file.kind = "absent"
       THEN mainpc' = "merge" /\ UNCHANGED <<status, cause, exportData, tasks, wg, mu>>
       ELSE \/ \* os.Open fails (lines 310-313)
               Exit("exit1", "open") /\ UNCHANGED exportData
            \/ IF Decodable(file)
               THEN /\ exportData' = Decode(file)
                    /\ mainpc' = "merge"
                    /\ UNCHANGED <<status, cause, tasks, wg, mu>>
               ELSE Exit("exit1", "decode") /\ UNCHANGED exportData
    /\ UNCHANGED <<runs, now, deletedFieldsCSV, mainIdx, deleteCounts,
                   file, fileBefore, queries, prev, offset, hashed>>

\* AppendResults that keeps the new batch alone.
ReplaceResults(d, batch) ==
    [d EXCEPT !.ResultsNil = (batch = <<>>), !.Results = batch]

\* main.go 322: append(exportData.Results, deleteCounts...); appending nothing
\* to a nil slice leaves it nil.
AppendResults(d, batch) ==
    [d EXCEPT !.ResultsNil = (d.ResultsNil /\ batch = <<>>),
              !.Results = d.Results \o batch]

\* CurCountsArgument with the merged results instead of the batch.
CurCountsArgumentAll(d, batch) == d.Results

\* main.go 323: the records calculateCurCounts is called with.
CurCountsArgument(d, batch) == batch

\* main.go 322-323.
ExportMerge ==
    /\ Running /\ mainpc = "merge"
    /\ now' \in ClockReadings
    /\ LET d == AppendResults(exportData, deleteCounts) IN
       \E lrc \in calculateCurCounts(CurCountsArgument(d, deleteCounts), DateOf(now')) :
           exportData' = [d EXCEPT !.LastRunCount = lrc]
    /\ mainpc' = "create"
    /\ UNCHANGED <<status, runs, deletedFieldsCSV, mainIdx, tasks, wg,
                   deleteCounts, mu, file, fileBefore, queries, cause, prev, offset, hashed>>

\* main.go 325: os.Create truncates the file.
ExportCreateOk ==
    /\ Running /\ mainpc = "create"
    /\ file' = EmptyFile
    /\ offset' = "start"
    /\ mainpc' = "encode"
    /\ UNCHANGED <<status, runs, now, deletedFieldsCSV, mainIdx, tasks, wg,
                   deleteCounts, mu, exportData, fileBefore, queries, cause, prev, hashed>>

\* main.go 326-328: os.Create fails.
ExportCreateFail ==
    /\ Running /\ mainpc = "create"
    /\ Exit("exit1", "create")
    /\ UNCHANGED <<runs, now, deletedFieldsCSV, mainIdx, deleteCounts,
                   file, exportData, fileBefore, queries, prev, offset, hashed>>

\* main.go 331-335: the encoded state is written.
ExportEncodeOk ==
    /\ Running /\ mainpc = "encode"
    /\ file' = Encode(exportData)
    /\ offset' = "end"
    /\ mainpc' = "md5"
    /\ UNCHANGED <<status, runs, now, deletedFieldsCSV, mainIdx, tasks, wg,
                   deleteCounts, mu, exportData, fileBefore, queries, cause, prev, hashed>>

\* main.go 333-335: the write fails; nothing or a part of the state was written.
ExportEncodeFail ==
    /\ Running /\ mainpc = "encode"
    /\ file' \in {EmptyFile, PartialFile}
    /\ offset' = IF file' = EmptyFile THEN "start" ELSE "end"
    /\ Exit("exit1", "encode")
    /\ UNCHANGED <<runs, now, deletedFieldsCSV, mainIdx, deleteCounts,
                   exportData, fileBefore, queries, prev, hashed>>

\* main.go 79: io.Copy(hasher, file) reads from the position of the handle to
\* the end of the file; at the end of the file there is nothing left to read.
ReadFrom(f, off) == IF off = "start" THEN f ELSE EmptyFile

\* main.go 337-343, 77-85: the checksum is computed and logged, main returns.
ExportChecksum ==
    /\ Running /\ mainpc = "md5"
    /\ hashed' = ReadFrom(file, offset)
    /\ Exit("exit0", "exported")
    /\ UNCHANGED <<runs, now, deletedFieldsCSV, mainIdx, deleteCounts,
                   file, exportData, fileBefore, queries, prev, offset>>

\* main.go 79-81, 338-340: reading the file fails, log.Fatalf.
ExportChecksumFail ==
    /\ Running /\ mainpc = "md5"
    /\ Exit("exit1", "md5")
    /\ UNCHANGED <<runs, now, deletedFieldsCSV, mainIdx, deleteCounts,
                   file, exportData, fileBefore, queries, prev, offset, hashed>>

\* ---------------------------------------------------------------- specification

\* One run of the program, over every table of DeletedFieldsOutputs.
Next ==
    \/ MainQueryOk
    \/ MainQueryFail
    \/ ProcessDeletedFieldsStep
    \/ RootJoin
    \/ ExportLoad
    \/ ExportMerge
    \/ ExportCreateOk
    \/ ExportCreateFail
    \/ ExportEncodeOk
    \/ ExportEncodeFail
    \/ ExportChecksum
    \/ ExportChecksumFail
    \/ \E t \in DOMAIN tasks : StageAEnumOk(t)
    \/ \E t \in DOMAIN tasks : StageADirect(t)
    \/ \E t \in DOMAIN tasks : ProcessDeveloperNamesStep(t)
    \/ \E t \in DOMAIN tasks : StageBQueryOk(t)
    \/ \E t \in DOMAIN tasks : ProcessApiNamesStep(t)
    \/ \E t \in DOMAIN tasks : StageCQueryOk(t)
    \/ \E t \in DOMAIN tasks : QueryFail(t)
    \/ \E t \in DOMAIN tasks : Lock(t)
    \/ \E t \in DOMAIN tasks : AppendRecord(t)
    \/ \E t \in DOMAIN tasks : Unlock(t)
    \/ \E t \in DOMAIN tasks : StageCDone(t)
    \/ \E t \in DOMAIN tasks : Join(t)

Spec == Init /\ [][Next]_vars

\* Up to MaxRuns runs in a row on the same export file.
NextRuns ==
    \/ Restart
    \/ RepeatedQueryOk
    \/ MainQueryFail
    \/ ProcessDeletedFieldsStep
    \/ RootJoin
    \/ ExportLoad
    \/ ExportMerge
    \/ ExportCreateOk
    \/ ExportCreateFail
    \/ ExportEncodeOk
    \/ ExportEncodeFail
    \/ ExportChecksum
    \/ ExportChecksumFail
    \/ \E t \in DOMAIN tasks : StageAEnumOk(t)
    \/ \E t \in DOMAIN tasks : StageADirect(t)
    \/ \E t \in DOMAIN tasks : ProcessDeveloperNamesStep(t)
    \/ \E t \in DOMAIN tasks : StageBQueryOk(t)
    \/ \E t \in DOMAIN tasks : ProcessApiNamesStep(t)
    \/ \E t \in DOMAIN tasks : StageCQueryOk(t)
    \/ \E t \in DOMAIN tasks : QueryFail(t)
    \/ \E t \in DOMAIN tasks : Lock(t)
    \/ \E t \in DOMAIN tasks : AppendRecord(t)
    \/ \E t \in DOMAIN tasks : Unlock(t)
    \/ \E t \in DOMAIN tasks : StageCDone(t)
    \/ \E t \in DOMAIN tasks : Join(t)

SpecRuns == Init /\ [][NextRuns]_vars

\* One run in which every query returns successfully and no write of the
\* export fails. The Go scheduler runs some runnable goroutine as long as
\* there is one, and sync.Mutex hands the lock to a waiter: a step is taken
\* whenever one is possible.
NextLive ==
    \/ MainQueryOk
    \/ ProcessDeletedFieldsStep
    \/ RootJoin
    \/ ExportLoad
    \/ ExportMerge
    \/ ExportCreateOk
    \/ ExportEncodeOk
    \/ ExportChecksum
    \/ \E t \in DOMAIN tasks : StageAEnumOk(t)
    \/ \E t \in DOMAIN tasks : StageADirect(t)
    \/ \E t \in DOMAIN tasks : ProcessDeveloperNamesStep(t)
    \/ \E t \in DOMAIN tasks : StageBQueryOk(t)
    \/ \E t \in DOMAIN tasks : ProcessApiNamesStep(t)
    \/ \E t \in DOMAIN tasks : StageCQueryOk(t)
    \/ \E t \in DOMAIN tasks : Lock(t)
    \/ \E t \in DOMAIN tasks : AppendRecord(t)
    \/ \E t \in DOMAIN tasks : Unlock(t)
    \/ \E t \in DOMAIN tasks : StageCDone(t)
    \/ \E t \in DOMAIN tasks : Join(t)

SpecLive == Init /\ [][NextLive]_vars /\ WF_vars(NextLive)

\* ---------------------------------------------------------------- the export step alone
\* The records an accumulator may hold when the pipeline has returned: the
\* count query of an object may answer differently from one call to the next.
CountRecords ==
    {DeleteCountRecord(FooDel, Account, q, <<"Fooapi">>, c, ts) :
        q \in {<<"Xq">>, <<"Yq">>}, c \in 1..2, ts \in 0..MaxTime}

RecordSeqs == UNION {[1..n -> CountRecords] : n \in 0..MaxRecords}

\* The latest Timestamp of the records (0 when there is none).
LastReading(records) ==
    IF records = <<>> THEN 0
    ELSE CHOOSE ts \in {records[i].Timestamp : i \in DOMAIN records} :
             \A i \in DOMAIN records : records[i].Timestamp <= ts

\* main at line 71 with processDeletedFields returned and the export asked
\* for; every goroutine has ended and the accumulator holds any records.
InitExport ==
    /\ status = "running"
    /\ mainpc = "stat"
    /\ runs = 1
    /\ deleteCounts \in RecordSeqs
    /\ now = LastReading(deleteCounts)
    /\ deletedFieldsCSV = <<>>
    /\ mainIdx = 2
    /\ tasks = <<>>
    /\ wg = (Root :> 0)
    /\ mu = NoTask
    /\ file \in InitialFiles
    /\ exportData = ZeroExportData
    /\ fileBefore = file
    /\ queries = {}
    /\ cause = "none"
    /\ prev = NoRun
    /\ offset = "none"
    /\ hashed = NotHashed

NextExport ==
    \/ ExportLoad
    \/ ExportMerge
    \/ ExportCreateOk
    \/ ExportCreateFail
    \/ ExportEncodeOk
    \/ ExportEncodeFail
    \/ ExportChecksum
    \/ ExportChecksumFail

SpecExport == InitExport /\ [][NextExport]_vars

\* ---------------------------------------------------------------- properties
ExportPcs == {"stat", "merge", "create", "encode", "md5"}

\* processDeletedFields has returned in this run.
Returned == mainpc \in ExportPcs \/ cause = "ok"

Lines == Split(deletedFieldsCSV, NL)

\* Eligibility as the specification states it: the first field ends with the
\* deletion marker and the row is neither empty nor the header row.
Eligible(line) ==
    /\ line # <<>>
    /\ Split(line, COMMA)[1] # DevNameTitle
    /\ HasSuffix(Split(line, COMMA)[1], DelSuffix)

\* The rows of a decoded table.
Rows(csv) == {Split(l, COMMA) : l \in {Split(csv, NL)[i] : i \in DOMAIN Split(csv, NL)} \ {<<>>}}

DeveloperNamesOf(data) ==
    IF HasPrefix(data[2], EnumPrefix)
    THEN {r[2] : r \in {x \in Rows(extractCSVData(EnumOutput(data[2]))) : x[2] # DevNameTitle}}
    ELSE {data[1]}

QualifiedNamesOf(dev) ==
    {r[3] : r \in {x \in Rows(extractCSVData(ApiOutput(dev))) : x[3] # QualifiedTitle}}

\* The (developerName, qualifiedApiName) pairs reachable from an eligible row.
ReachablePairs ==
    UNION {UNION {{<<data[1], q>> : q \in QualifiedNamesOf(dev)} : dev \in DeveloperNamesOf(data)} :
              data \in {Split(l, COMMA) :
                            l \in {Lines[k] : k \in {j \in DOMAIN Lines :
                                      Eligible(Lines[j]) /\ Len(Split(Lines[j], COMMA)) >= 2}}}}

RecordsFor(pair) ==
    {i \in DOMAIN deleteCounts :
        <<deleteCounts[i].DeveloperName, deleteCounts[i].QualifiedApiName>> = pair}

\* C1: once processDeletedFields has returned (so every query succeeded), the
\* accumulator holds exactly one record for every (developerName,
\* qualifiedApiName) pair reachable from an eligible deleted-field row.
C1_OneRecordPerPair ==
    Returned => \A pair \in ReachablePairs : Cardinality(RecordsFor(pair)) = 1

\* C2: a run in which a query failed has ended with a non-zero status while
\* main was still before the export, and the state file holds what it held when
\* the run started.
C2_QueryFailureAborts ==
    cause = "query" =>
        /\ status = "exit1"
        /\ mainpc \in {"query", "loop"}
        /\ file = fileBefore

\* A query failed after a sibling had appended its record, with a state file present.
C2_Witness ==
    /\ cause = "query"
    /\ deleteCounts # <<>>
    /\ fileBefore = OldFile

\* The totals of a record sequence: per calendar date, the sum of the Count of
\* the first record of each QualifiedApiName on that date.
FirstSeen(records, i) ==
    \A j \in 1..(i - 1) :
        ~(/\ DateOf(records[j].Timestamp) = DateOf(records[i].Timestamp)
          /\ records[j].QualifiedApiName = records[i].QualifiedApiName)

RECURSIVE TotalUpTo(_, _, _)
TotalUpTo(records, date, n) ==
    IF n = 0 THEN 0
    ELSE TotalUpTo(records, date, n - 1)
             + (IF DateOf(records[n].Timestamp) = date /\ FirstSeen(records, n)
                THEN records[n].Count ELSE 0)

ExpectedTotals(records, today) ==
    IF records = <<>>
    THEN {LastCount(today, 0)}
    ELSE {LastCount(d, TotalUpTo(records, d, Len(records))) :
              d \in {DateOf(records[i].Timestamp) : i \in DOMAIN records}}

\* lrc lists each total of records once, in some order.
IsTotalsOf(lrc, records, today) ==
    /\ {lrc[i] : i \in DOMAIN lrc} = ExpectedTotals(records, today)
    /\ Len(lrc) = Cardinality(ExpectedTotals(records, today))

PriorResults(f) == IF f.kind = "json" THEN f.resultItems ELSE <<>>

\* C4: after a successful export the persisted results are the results
\* persisted before the run, unchanged and in order, followed by this run's
\* batch in batch order.
C4_ResultsOnlyGrow ==
    cause = "exported" =>
        /\ file.kind = "json"
        /\ file.resultItems = PriorResults(fileBefore) \o deleteCounts

\* The second run appends two records to results written by the first run.
C4_Witness ==
    /\ cause = "exported"
    /\ runs = 2
    /\ prev.cause = "exported"
    /\ prev.batch # <<>>
    /\ Len(deleteCounts) = 2

\* C5: at every point the state file holds either the complete content it had
\* before the run or the complete new content.
C5_AtomicReplace ==
    \/ file = fileBefore
    \/ mainpc \in {"encode", "md5"} /\ file = Encode(exportData)

\* C6: when the state file exists and cannot be decoded, the run never gets
\* past loading it, ends with a non-zero status there, and the file keeps its content.
C6_CorruptFileUntouched ==
    (fileBefore.kind # "absent" /\ ~Decodable(fileBefore)) =>
        /\ file = fileBefore
        /\ mainpc \notin {"merge", "create", "encode", "md5"}
        /\ (mainpc = "stat" /\ ~Running => status = "exit1" /\ cause \in {"open", "decode"})

\* The export met an undecodable file with records accumulated.
C6_Witness ==
    /\ cause = "decode"
    /\ fileBefore.kind \in {"garbage", "empty", "partial"}
    /\ deleteCounts # <<>>

\* The Stage C goroutines inside the critical section / past their append.
InCritical == {t \in DOMAIN tasks : tasks[t].pc \in {"append", "unlock"}}
Appended == {t \in DOMAIN tasks : tasks[t].pc \in {"unlock", "return", "done"}
                                     /\ tasks[t].stage = "C"}

\* C7: at most one goroutine is inside the append critical section, the
\* accumulator holds each record as many times as goroutines have appended it
\* (nothing lost, nothing de-duplicated), and every change of the accumulator
\* appends exactly one record to it.
C7_ExclusiveAppends ==
    /\ [](Running =>
            /\ Cardinality(InCritical) <= 1
            /\ \A t \in DOMAIN tasks :
                   tasks[t].stage = "C" /\ tasks[t].pc \in {"unlock", "return", "done"} =>
                       Cardinality({i \in DOMAIN deleteCounts :
                                       deleteCounts[i] = tasks[t].record})
                         = Cardinality({u \in Appended :
                                           tasks[u].record = tasks[t].record})
            /\ Len(deleteCounts) = Cardinality(Appended))
    /\ [][deleteCounts' # deleteCounts =>
             /\ Len(deleteCounts') = Len(deleteCounts) + 1
             /\ SubSeq(deleteCounts', 1, Len(deleteCounts)) = deleteCounts]_vars

\* Two goroutines appended records with the same fields and both are kept.
C7_Witness ==
    /\ Running
    /\ Len(deleteCounts) = 2
    /\ deleteCounts[1] = deleteCounts[2]

\* C8: while main is in the export every goroutine of the run has finished, the
\* mutex is free, the accumulator holds the record of every Stage C goroutine,
\* and what the export read from the accumulator is all of it.
C8_ExportAfterJoin ==
    (Running /\ mainpc \in ExportPcs) =>
        /\ \A t \in DOMAIN tasks : tasks[t].pc = "done"
        /\ mu = NoTask
        /\ Len(deleteCounts) = Cardinality({t \in DOMAIN tasks : tasks[t].stage = "C"})
        /\ (mainpc \in {"create", "encode", "md5"} =>
               exportData.Results = PriorResults(fileBefore) \o deleteCounts)

\* The export reads an accumulator of two records.
C8_Witness ==
    /\ Running
    /\ mainpc = "merge"
    /\ Len(deleteCounts) = 2

\* C9: every goroutine and every query of the pipeline descends from an
\* eligible row, and every record carries the fields of an eligible row.
C9_OnlyEligibleRows ==
    /\ \A t \in DOMAIN tasks : Eligible(Lines[t[1]])
    /\ \A q \in queries : q[1] # Root => Eligible(Lines[q[1][1]])
    /\ \A i \in DOMAIN deleteCounts :
           \E k \in DOMAIN Lines :
               /\ Eligible(Lines[k])
               /\ Len(Split(Lines[k], COMMA)) >= 2
               /\ deleteCounts[i].DeveloperName = Split(Lines[k], COMMA)[1]
               /\ deleteCounts[i].TableEnumOrId = Split(Lines[k], COMMA)[2]

\* The table had a row that is not a deleted field next to one that is, the
\* loop has passed both and the pipeline has produced records.
C9_Witness ==
    /\ \E k \in DOMAIN Lines :
           /\ Lines[k] # <<>>
           /\ ~HasPrefix(Lines[k], DevNameTitle)
           /\ ~Eligible(Lines[k])
    /\ Returned
    /\ deleteCounts # <<>>

\* Two exports in a row, both successful and both with an empty batch.
TwoEmptyExports ==
    /\ runs >= 2
    /\ prev.cause = "exported"
    /\ prev.batch = <<>>
    /\ cause = "exported"
    /\ deleteCounts = <<>>

Merged == mainpc \in {"create", "encode", "md5"}

DatesOf(records) == {DateOf(records[i].Timestamp) : i \in DOMAIN records}

\* C11: calculateCurCounts de-duplicates first-seen-wins per date: for every
\* date of the records it returns one entry, whose count is the sum of the
\* Count of the first record of each QualifiedApiName on that date; a later
\* record of the same date and name adds nothing whatever its count, and the
\* same name on another date is counted under that date.
C11_FirstSeenWins ==
    (Merged /\ deleteCounts # <<>>) =>
        LET lrc == exportData.LastRunCount IN
        /\ {lrc[i].Date : i \in DOMAIN lrc} = DatesOf(deleteCounts)
        /\ \A i \in DOMAIN lrc :
               lrc[i].Count = TotalUpTo(deleteCounts, lrc[i].Date, Len(deleteCounts))
        /\ \A i, j \in DOMAIN lrc : i # j => lrc[i].Date # lrc[j].Date

\* Two records of one name on one date with different counts, then the same
\* name on another date: the first and the third are counted, the second is not.
C11_Witness ==
    /\ Merged
    /\ Len(deleteCounts) = 3
    /\ deleteCounts[1].QualifiedApiName = deleteCounts[2].QualifiedApiName
    /\ deleteCounts[1].QualifiedApiName = deleteCounts[3].QualifiedApiName
    /\ DateOf(deleteCounts[1].Timestamp) = DateOf(deleteCounts[2].Timestamp)
    /\ DateOf(deleteCounts[1].Timestamp) # DateOf(deleteCounts[3].Timestamp)
    /\ deleteCounts[1].Count # deleteCounts[2].Count
    /\ \E i, j \in DOMAIN exportData.LastRunCount :
           /\ exportData.LastRunCount[i] =
                  LastCount(DateOf(deleteCounts[1].Timestamp), deleteCounts[1].Count)
           /\ exportData.LastRunCount[j] =
                  LastCount(DateOf(deleteCounts[3].Timestamp), deleteCounts[3].Count)

\* C12: an export with no state file and an empty accumulator persists results
\* as an empty sequence and lastRunCount as the single entry of today's date
\* with count 0; after every successful export lastRunCount has an entry.
C12_EmptyState ==
    /\ (cause = "exported" /\ fileBefore = AbsentFile /\ deleteCounts = <<>>) =>
           /\ file.kind = "json"
           /\ file.results = "array"
           /\ file.resultItems = <<>>
           /\ file.lastRunCount = <<LastCount(DateOf(now), 0)>>
    /\ (cause = "exported" => Len(file.lastRunCount) >= 1)

\* C13: the bytes the checksum is computed over are the whole content just
\* written to the state file, from its first byte.
C13_ChecksumOfWrittenContent ==
    hashed # NotHashed =>
        /\ hashed = file
        /\ hashed = Encode(exportData)

\* The goroutines started, directly or not, by goroutine t.
Descendants(t) ==
    {u \in DOMAIN tasks : Len(u) > Len(t) /\ SubSeq(u, 1, Len(t)) = t}

\* C14: a goroutine that has finished has run its loop to the end and every
\* goroutine below it has finished; the step in which a Stage A or Stage B
\* goroutine finishes is taken when all its descendants had finished already;
\* and processDeletedFields has returned only when every goroutine had finished.
C14_StructuredJoin ==
    /\ [](Running =>
            /\ \A t \in DOMAIN tasks :
                   tasks[t].pc = "done" =>
                       /\ tasks[t].stage \in {"A", "B"} =>
                              tasks[t].idx > Len(Split(tasks[t].csv, NL))
                       /\ \A u \in Descendants(t) : tasks[u].pc = "done"
            /\ Returned => \A t \in DOMAIN tasks : tasks[t].pc = "done")
    /\ [][\A t \in DOMAIN tasks \cap DOMAIN tasks' :
             (tasks[t].pc # "done" /\ tasks'[t].pc = "done") =>
                 /\ \A u \in Descendants(t) : tasks[u].pc = "done"
                 /\ DOMAIN tasks' = DOMAIN tasks]_vars
    /\ [][(mainpc = "loop" /\ mainpc' # "loop") =>
             \A t \in DOMAIN tasks : tasks[t].pc = "done"]_vars

\* A Stage A goroutine has finished that had two Stage B goroutines below it,
\* each with a Stage C goroutine of its own.
C14_Witness ==
    /\ Running
    /\ \E t \in DOMAIN tasks :
           /\ tasks[t].stage = "A" /\ tasks[t].pc = "done"
           /\ Cardinality({u \in Descendants(t) : tasks[u].stage = "B"}) = 2
           /\ \A u \in Descendants(t) :
                  tasks[u].stage = "B" =>
                      \E v \in Descendants(u) : tasks[v].stage = "C"

\* The Stage A goroutines of direct rows (table identifier without the
\* enumeration prefix) that are past their first step.
DirectTasks ==
    {t \in DOMAIN tasks :
        /\ tasks[t].stage = "A" /\ tasks[t].pc # "start"
        /\ ~HasPrefix(tasks[t].data[2], EnumPrefix)}

Children(t) == {u \in DOMAIN tasks : Len(u) = Len(t) + 1 /\ Parent(u) = t}

C16_EveryDeletedRowDispatched ==
    Running =>
        \A k \in DOMAIN Lines :
            k < mainIdx => (<<k>> \in DOMAIN tasks <=> Eligible(Lines[k]))

\* The row goroutine t was started with, read again from the table its parent
\* looped over.
RowOf(t) ==
    IF Len(t) = 1 THEN Split(Lines[t[1]], COMMA)
    ELSE Split(Split(tasks[Parent(t)].csv, NL)[t[Len(t)]], COMMA)

\* The Stage C goroutines that have built their record.
Built == {t \in DOMAIN tasks : tasks[t].stage = "C" /\ tasks[t].pc # "query"}

\* C17: the record of every Stage C goroutine carries the developer name and
\* table identifier of the deleted-field row it descends from, the qualified
\* name and API name of its own row, and the count answered for that
\* qualified name by a query the goroutine issued itself; and every record
\* in the accumulator is the record of a goroutine that has appended.
C17_OwnProvenance ==
    Running =>
        /\ \A t \in Built :
               /\ tasks[t].record.DeveloperName = RowOf(<<t[1]>>)[1]
               /\ tasks[t].record.TableEnumOrId = RowOf(<<t[1]>>)[2]
               /\ tasks[t].record.QualifiedApiName = RowOf(t)[3]
               /\ tasks[t].record.ApiName = RowOf(t)[2]
               /\ tasks[t].record.Count = CountOf(RowOf(t)[3])
               /\ <<t, "count", RowOf(t)[3]>> \in queries
        /\ \A i \in DOMAIN deleteCounts :
               \E t \in Appended : deleteCounts[i] = tasks[t].record

\* One deleted field resolved to two objects: the accumulator holds a record
\* for each, with its own qualified name, API name and count.
C17_Witness ==
    /\ Running
    /\ Len(deleteCounts) = 2
    /\ deleteCounts[1].DeveloperName = deleteCounts[2].DeveloperName
    /\ deleteCounts[1].QualifiedApiName # deleteCounts[2].QualifiedApiName
    /\ deleteCounts[1].ApiName # deleteCounts[2].ApiName
    /\ deleteCounts[1].Count # deleteCounts[2].Count

\* C18: when every query returns successfully (and no write of the export
\* fails), the run eventually exits with status 0, having joined every
\* goroutine, unless it stops at a state file it cannot load.
C18_Terminates ==
    <>(status = "exit0" \/ cause \in {"open", "decode"})

\* C19: no stage reads a field a decoded row does not have: no run ends in
\* the panic of an index out of range.
C19_NoIndexOutOfRange == cause # "panic"

\* C20: calculateCurCounts is a function of its input: any evaluation on the
\* accumulator the export was given returns the sequence the export got, with
\* the same entries in the same order.
C20_SameSequenceEveryTime ==
    (Running /\ Merged) =>
        \A lrc \in calculateCurCounts(deleteCounts, DateOf(now)) :
            lrc = exportData.LastRunCount

====
